---- MODULE Spec2Model ----
(***************************************************************************)
(* Model of src/aegraph.cpp: the AEGraph tree of Peirce alpha graphs, its  *)
(* parser and serializer, the path queries and the three inference rules   *)
(* (double cut, erasure, deiteration).                                     *)
(*                                                                         *)
(* A std::string is a sequence of one-character strings.  An AEGraph is a  *)
(* record [is_SA, atoms, subgraphs]; vectors are sequences, and a C++      *)
(* index i is the TLA+ index i + 1.  Paths are sequences of C++ indices.   *)
(***************************************************************************)
EXTENDS Integers, Sequences, FiniteSets, TLC

VARIABLES input, g, status, op, paths, where, target, prev, copy, steps

vars == <<input, g, status, op, paths, where, target, prev, copy, steps>>

-----------------------------------------------------------------------------
(* Bounds of the model.                                                    *)

\* every text over Alphabet of at most this many characters is an input
MaxLen == 4
\* every well-formed text of at most this many elements (atoms and cuts)
\* below the sheet is an input
MaxItems == 4
\* rule applications per run
MaxSteps == 2

-----------------------------------------------------------------------------
(* Characters and std::string comparison.                                  *)

Alphabet == {"(", ")", "[", "]", ",", " ", "a"}

Code(c) ==
    CASE c = "\t" -> 9
      [] c = "\n" -> 10
      [] c = "\r" -> 13
      [] c = " " -> 32
      [] c = "(" -> 40
      [] c = ")" -> 41
      [] c = "," -> 44
      [] c = "[" -> 91
      [] c = "]" -> 93
      [] c = "a" -> 97
      [] c = "b" -> 98
      [] c = "c" -> 99

\* std::string operator< : lexicographic on the character codes
RECURSIVE StrLess(_, _)
StrLess(s, t) ==
    IF t = <<>> THEN FALSE
    ELSE IF s = <<>> THEN TRUE
    ELSE IF Code(Head(s)) < Code(Head(t)) THEN TRUE
    ELSE IF Code(Head(s)) > Code(Head(t)) THEN FALSE
    ELSE StrLess(Tail(s), Tail(t))

Whitespace == {" ", "\n", "\r", "\t"}

\* s.erase(0, s.find_first_not_of(ws)); s.erase(s.find_last_not_of(ws) + 1)
strip(s) ==
    LET keep == {i \in 1..Len(s) : s[i] \notin Whitespace}
    IN  IF keep = {} THEN <<>>
        ELSE LET lo == CHOOSE i \in keep : \A j \in keep : i <= j
                 hi == CHOOSE i \in keep : \A j \in keep : j <= i
             IN  SubSeq(s, lo, hi)

\* numOpen before the character at C++ index i (TLA+ index i + 1)
RECURSIVE numOpenAt(_, _)
numOpenAt(s, i) ==
    IF i = 0 THEN 0
    ELSE numOpenAt(s, i - 1)
         + (IF s[i] = "[" THEN 1 ELSE 0) - (IF s[i] = "]" THEN 1 ELSE 0)

\* <first element, rest>: split at the first comma met with numOpen = 0
split_first(s) ==
    LET cuts == {i \in 1..Len(s) : s[i] = "," /\ numOpenAt(s, i - 1) = 0}
    IN  IF cuts = {} THEN <<strip(s), <<>>>>
        ELSE LET i == CHOOSE k \in cuts : \A j \in cuts : k <= j
             IN  <<strip(SubSeq(s, 1, i - 1)), strip(SubSeq(s, i + 1, Len(s)))>>

RECURSIVE split_level(_)
split_level(s) ==
    LET p == split_first(s)
    IN  IF p[2] = <<>> THEN <<p[1]>> ELSE <<p[1]>> \o split_level(p[2])

-----------------------------------------------------------------------------
(* The tree.                                                               *)

Node(sa, as, sgs) == [is_SA |-> sa, atoms |-> as, subgraphs |-> sgs]

num_subgraphs(n) == Len(n.subgraphs)

num_atoms(n) == Len(n.atoms)

size(n) == num_atoms(n) + num_subgraphs(n)

RECURSIVE Flatten(_)
Flatten(ss) == IF ss = <<>> THEN <<>> ELSE Head(ss) \o Flatten(Tail(ss))

RECURSIVE JoinAtoms(_)
JoinAtoms(as) ==
    IF Len(as) = 1 THEN as[1]
    ELSE Head(as) \o <<",", " ">> \o JoinAtoms(Tail(as))

RECURSIVE repr(_)
repr(n) ==
    LET left == IF n.is_SA THEN <<"(">> ELSE <<"[">>
        right == IF n.is_SA THEN <<")">> ELSE <<"]">>
        result == Flatten([i \in 1..Len(n.subgraphs) |->
                              repr(n.subgraphs[i]) \o <<",", " ">>])
    IN  IF Len(n.atoms) # 0
        THEN left \o result \o JoinAtoms(n.atoms) \o right
        ELSE IF Len(n.subgraphs) # 0
             THEN left \o SubSeq(result, 1, Len(result) - 2) \o right
             ELSE left \o result \o right

\* AEGraph::operator< and operator== compare the serialized texts
GraphLess(x, y) == StrLess(repr(x), repr(y))

GraphEq(x, y) == repr(x) = repr(y)

RECURSIVE sort(_)
sort(n) ==
    Node(n.is_SA,
         SortSeq(n.atoms, StrLess),
         SortSeq([i \in 1..Len(n.subgraphs) |-> sort(n.subgraphs[i])], GraphLess))

\* what a failed construction leaves: no tree
NoGraph == Node(FALSE, <<>>, <<>>)

Built(n) == [ok |-> TRUE, graph |-> n]

Aborted == [ok |-> FALSE, graph |-> NoGraph]

\* the assert of the constructor, in a build that keeps assertions
delimiters_ok(representation) ==
    LET left_sep == representation[1]
        right_sep == representation[Len(representation)]
    IN  \/ left_sep = "(" /\ right_sep = ")"
        \/ left_sep = "[" /\ right_sep = "]"

\* s[0] != '[' : the empty string has s[0] = '\0'
is_atom_text(s) == s = <<>> \/ s[1] # "["

\* AEGraph::AEGraph(std::string): a failed assert aborts the process, so a
\* failure in a nested construction fails the whole one
RECURSIVE AEGraph(_)
AEGraph(representation) ==
    IF ~delimiters_ok(representation) THEN Aborted
    ELSE
    LET body == SubSeq(representation, 2, Len(representation) - 1)
        v == split_level(body)
        as == SelectSeq(v, is_atom_text)
        texts == SelectSeq(v, LAMBDA s : ~is_atom_text(s))
        built == [i \in 1..Len(texts) |-> AEGraph(texts[i])]
    IN  IF \E i \in 1..Len(built) : ~built[i].ok THEN Aborted
        ELSE Built(sort(Node(representation[1] = "(", as,
                             [i \in 1..Len(built) |-> built[i].graph])))

\* AEGraph::operator[] : subgraphs first, then atoms, then the "()" fallback
Index(n, index) ==
    IF index < num_subgraphs(n) THEN n.subgraphs[index + 1]
    ELSE IF index < num_subgraphs(n) + num_atoms(n)
         THEN AEGraph(<<"(">> \o n.atoms[index - num_subgraphs(n) + 1] \o <<")">>).graph
         ELSE AEGraph(<<"(", ")">>).graph

-----------------------------------------------------------------------------
(* Structural queries.                                                     *)

\* v.insert(v.begin(), i) on every path of r
Prefixed(i, r) == [k \in 1..Len(r) |-> <<i>> \o r[k]]

RECURSIVE contains_atom(_, _)
contains_atom(n, other) ==
    \/ \E i \in 1..Len(n.atoms) : n.atoms[i] = other
    \/ \E i \in 1..Len(n.subgraphs) : contains_atom(n.subgraphs[i], other)

\* get_paths_to that gives an atom its index among the atoms alone
RECURSIVE get_paths_to_atom_no_offset(_, _)
get_paths_to_atom_no_offset(n, other) ==
    LET own == Flatten([i \in 1..num_atoms(n) |->
                   IF n.atoms[i] = other /\ size(n) > 1
                   THEN << <<i - 1>> >> ELSE <<>>])
        below == Flatten([i \in 1..num_subgraphs(n) |->
                   IF contains_atom(n.subgraphs[i], other)
                   THEN Prefixed(i - 1, get_paths_to_atom_no_offset(n.subgraphs[i], other))
                   ELSE <<>>])
    IN  own \o below

RECURSIVE get_paths_to_atom(_, _)
get_paths_to_atom(n, other) ==
    LET len_atoms == num_atoms(n)
        len_subgraphs == num_subgraphs(n)
        own == Flatten([i \in 1..len_atoms |->
                   IF n.atoms[i] = other /\ size(n) > 1
                   THEN << <<(i - 1) + len_subgraphs>> >> ELSE <<>>])
        below == Flatten([i \in 1..len_subgraphs |->
                   IF contains_atom(n.subgraphs[i], other)
                   THEN Prefixed(i - 1, get_paths_to_atom(n.subgraphs[i], other))
                   ELSE <<>>])
    IN  own \o below

RECURSIVE get_paths_to_graph(_, _)
get_paths_to_graph(n, other) ==
    Flatten([i \in 1..num_subgraphs(n) |->
        IF GraphEq(n.subgraphs[i], other) /\ size(n) > 1
        THEN << <<i - 1>> >>
        ELSE Prefixed(i - 1, get_paths_to_graph(n.subgraphs[i], other))])

\* removeDuplicates: the first occurrence of each element, in order
removeDuplicates(v) ==
    LET first == SelectSeq([i \in 1..Len(v) |-> i],
                           LAMBDA i : \A j \in 1..(i - 1) : v[j] # v[i])
    IN  [k \in 1..Len(first) |-> v[first[k]]]

\* vector::erase(begin() + (k - 1)) with k in range
RemoveAt(v, k) == SubSeq(v, 1, k - 1) \o SubSeq(v, k + 1, Len(v))

-----------------------------------------------------------------------------
(* Double cut.                                                             *)

RECURSIVE possible_double_cuts(_)
possible_double_cuts(n) ==
    LET own == Flatten([i \in 1..num_subgraphs(n) |->
                   IF /\ num_subgraphs(n.subgraphs[i]) = 1
                      /\ num_atoms(n.subgraphs[i]) = 0
                   THEN << <<i - 1>> >> ELSE <<>>])
        below == Flatten([i \in 1..num_subgraphs(n) |->
                   Prefixed(i - 1, possible_double_cuts(n.subgraphs[i]))])
    IN  own \o below

\* splice that leaves the inner cut's subgraphs behind
splice_atoms_only(n, i) ==
    LET child == n.subgraphs[i + 1].subgraphs[1]
    IN  Node(n.is_SA, n.atoms \o child.atoms, RemoveAt(n.subgraphs, i + 1))

\* the body of double_cut at traversalNode, where = the last index
splice(n, i) ==
    LET child == n.subgraphs[i + 1].subgraphs[1]
    IN  Node(n.is_SA,
             n.atoms \o child.atoms,
             RemoveAt(n.subgraphs, i + 1) \o child.subgraphs)

RECURSIVE double_cut(_, _)
double_cut(n, w) ==
    IF Len(w) > 1
    THEN [n EXCEPT !.subgraphs[w[1] + 1] = double_cut(@, Tail(w))]
    ELSE splice(n, w[1])

-----------------------------------------------------------------------------
(* Erasure.                                                                *)

\* the int remainder of C++ (truncated division): -1 % 2 = -1
CRem(a, b) == IF a >= 0 THEN a % b ELSE -((-a) % b)

\* the level test with the parity the other way round
erasable_on_even_level(n, level) ==
    /\ CRem(level, 2) = 0
    /\ ~(num_subgraphs(n) = 0 /\ num_atoms(n) = 1 /\ level # -1)
    /\ ~(num_subgraphs(n) = 1 /\ num_atoms(n) = 0 /\ level # -1)

\* the level test without the sole-child guards
erasable_without_guard(n, level) == CRem(level, 2) # 0

erasable_here(n, level) ==
    /\ CRem(level, 2) # 0
    /\ ~(num_subgraphs(n) = 0 /\ num_atoms(n) = 1 /\ level # -1)
    /\ ~(num_subgraphs(n) = 1 /\ num_atoms(n) = 0 /\ level # -1)

RECURSIVE possible_erasures(_, _)
possible_erasures(n, level) ==
    LET own == IF erasable_here(n, level)
               THEN [i \in 1..(num_subgraphs(n) + num_atoms(n)) |-> <<i - 1>>]
               ELSE <<>>
        below == Flatten([i \in 1..num_subgraphs(n) |->
                   Prefixed(i - 1, possible_erasures(n.subgraphs[i], level + 1))])
    IN  own \o below

\* atoms.erase(atoms.begin() + idx).  An idx outside 0..size-1 is undefined
\* behaviour: the process may crash, or the vector may come back unchanged
\* or with any one element gone.
erase_atom(n, idx) ==
    IF idx \in 0..(num_atoms(n) - 1)
    THEN {[crash |-> FALSE, graph |-> [n EXCEPT !.atoms = RemoveAt(@, idx + 1)]]}
    ELSE {[crash |-> TRUE, graph |-> n], [crash |-> FALSE, graph |-> n]}
         \cup {[crash |-> FALSE, graph |-> [n EXCEPT !.atoms = RemoveAt(@, k)]] :
                  k \in 1..num_atoms(n)}

\* subgraphs.erase(subgraphs.begin() + idx), idx in range on every branch
\* that reaches it
erase_subgraph(n, idx) ==
    {[crash |-> FALSE, graph |-> [n EXCEPT !.subgraphs = RemoveAt(@, idx + 1)]]}

\* the index erase subtracts on its last branch: num_subgraphs() of *this,
\* the root the method was called on, not of traversalNode
erase_offset(n, root_subgraphs) == root_subgraphs

\* the branches of erase at traversalNode n
erase_here(n, i, root_subgraphs) ==
    IF num_subgraphs(n) = 0 THEN erase_atom(n, i)
    ELSE IF num_subgraphs(n) - 1 >= i THEN erase_subgraph(n, i)
    ELSE erase_atom(n, i - erase_offset(n, root_subgraphs))

RECURSIVE erase_at(_, _, _)
erase_at(n, w, root_subgraphs) ==
    IF Len(w) > 1
    THEN {[crash |-> o.crash,
           graph |-> [n EXCEPT !.subgraphs[w[1] + 1] = o.graph]] :
             o \in erase_at(n.subgraphs[w[1] + 1], Tail(w), root_subgraphs)}
    ELSE erase_here(n, w[1], root_subgraphs)

\* the outcomes of this->erase(where)
erase(n, w) == erase_at(n, w, num_subgraphs(n))

-----------------------------------------------------------------------------
(* Deiteration.                                                            *)

RECURSIVE possible_deiterations(_)
possible_deiterations(n) ==
    LET na == num_atoms(n)
        ns == num_subgraphs(n)
        for_atoms == Flatten([i \in 1..na |-> Flatten([j \in 1..ns |->
                        Prefixed(j - 1, get_paths_to_atom(n.subgraphs[j], n.atoms[i]))])])
        for_subgraphs == Flatten([i \in 1..ns |->
                        Flatten([j \in 1..ns |->
                            IF i # j
                            THEN Prefixed(j - 1,
                                     get_paths_to_graph(n.subgraphs[j], n.subgraphs[i]))
                            ELSE <<>>])
                        \o Prefixed(i - 1, possible_deiterations(n.subgraphs[i]))])
    IN  removeDuplicates(for_atoms \o for_subgraphs)

\* deiterate with >= for > in the subgraph test
deiterate_here_ge(n, i) ==
    IF num_subgraphs(n) >= i THEN erase_subgraph(n, i)
    ELSE erase_atom(n, i - num_subgraphs(n))

\* deiterate that forgets to take the subgraph count off the atom index
deiterate_here_no_offset(n, i) ==
    IF num_subgraphs(n) > i THEN erase_subgraph(n, i)
    ELSE erase_atom(n, i)

\* the branches of deiterate at traversalNode n
deiterate_here(n, i) ==
    IF num_subgraphs(n) > i THEN erase_subgraph(n, i)
    ELSE erase_atom(n, i - num_subgraphs(n))

RECURSIVE deiterate(_, _)
deiterate(n, w) ==
    IF Len(w) > 1
    THEN {[crash |-> o.crash,
           graph |-> [n EXCEPT !.subgraphs[w[1] + 1] = o.graph]] :
             o \in deiterate(n.subgraphs[w[1] + 1], Tail(w))}
    ELSE deiterate_here(n, w[1])

-----------------------------------------------------------------------------
(* Inputs.                                                                 *)

\* every text of 1..MaxLen characters, well formed or not (the constructor
\* reads representation[size() - 1], so the empty text is left out)
ShortTexts == UNION {[1..n -> Alphabet] : n \in 1..MaxLen}

\* the well-formed element lists of exactly k elements (atoms a, b and cuts,
\* counted at every depth), written with "," or ", " between the elements:
\* Gen[k].elem the single elements, Gen[k].list the non-empty lists
Gen[k \in 0..(MaxItems + 1)] ==
    IF k = 0 THEN [elem |-> {}, list |-> {}]
    ELSE LET inner == IF k = 1 THEN {<<>>} ELSE Gen[k - 1].list
             elem == (IF k = 1 THEN {<<"a">>, <<"b">>} ELSE {})
                     \cup {<<"[">> \o l \o <<"]">> : l \in inner}
             elems(j) == IF j = k THEN elem ELSE Gen[j].elem
             list == elem \cup UNION {
                        {e \o <<",">> \o (IF Len(e) > 1 THEN <<" ">> ELSE <<>>) \o r :
                            e \in elems(j), r \in Gen[k - j].list} : j \in 1..(k - 1)}
         IN  [elem |-> elem, list |-> list]

GeneratedTexts ==
    {<<"(", ")">>} \cup
    UNION {{<<"(">> \o l \o <<")">> : l \in Gen[k].list} : k \in 1..MaxItems}

\* the texts of the worked scenarios and of the edge cases of the parser
ScenarioA ==
    <<"(", "a", ",", " ", "[", "b", "]", ",", " ", "[", "[", "c", "]", "]", ")">>

ScenarioB == <<"(", "a", ",", " ", "[", "a", "]", ")">>

ScenarioC == <<"(", "a", ",", " ", "[", "a", ",", " ", "b", "]", ")">>

ScenarioTexts ==
    { ScenarioA, ScenarioB, ScenarioC,
      <<"(", ",", "[", "a", "]", ")">>,
      <<"(", "[", "a", "]", "]", ")">>,
      <<"(", "a", ",", "a", ",", "[", "a", ",", "b", "]", ")">>,
      <<"(", "[", "[", "[", "a", "]", ",", "[", "b", "]", ",", "a", ",", "b", "]", "]", ")">> }

Texts == ShortTexts \cup GeneratedTexts \cup ScenarioTexts

-----------------------------------------------------------------------------
(* The targets of get_paths_to on a tree: its atoms and subgraphs at every *)
(* depth, and one atom that need not occur in it.                          *)

RECURSIVE atoms_of(_)
atoms_of(n) ==
    {n.atoms[i] : i \in 1..Len(n.atoms)}
    \cup UNION {atoms_of(n.subgraphs[i]) : i \in 1..Len(n.subgraphs)}

RECURSIVE subgraphs_of(_)
subgraphs_of(n) ==
    {n.subgraphs[i] : i \in 1..Len(n.subgraphs)}
    \cup UNION {subgraphs_of(n.subgraphs[i]) : i \in 1..Len(n.subgraphs)}

AtomTarget(a) == [is_atom |-> TRUE, atom |-> a, graph |-> NoGraph]

GraphTarget(x) == [is_atom |-> FALSE, atom |-> <<>>, graph |-> x]

NoTarget == AtomTarget(<<>>)

Targets(n) ==
    {AtomTarget(a) : a \in atoms_of(n) \cup {<<"c">>}}
    \cup {GraphTarget(x) : x \in subgraphs_of(n)}

-----------------------------------------------------------------------------
(* The state machine: a graph is constructed from a text; the caller then  *)
(* queries it and applies a rule at a path the matching query returned.    *)

Init ==
    /\ input \in Texts
    /\ LET r == AEGraph(input)
       IN  /\ g = r.graph
           /\ status = IF r.ok THEN "ok" ELSE "abort"
    /\ op = "parse"
    /\ paths = <<>>
    /\ where = <<>>
    /\ target = NoTarget
    /\ prev = NoGraph
    /\ copy = Aborted
    /\ steps = 0

Query(name, result, t) ==
    /\ status = "ok"
    /\ steps < MaxSteps
    /\ op' = name
    /\ paths' = result
    /\ target' = t
    /\ copy' = Aborted
    /\ UNCHANGED <<input, g, status, where, prev, steps>>

GetPathsTo ==
    \E t \in Targets(g) :
        Query("get_paths_to",
              IF t.is_atom THEN get_paths_to_atom(g, t.atom)
                           ELSE get_paths_to_graph(g, t.graph),
              t)

PossibleDoubleCuts == Query("possible_double_cuts", possible_double_cuts(g), NoTarget)

PossibleErasures == Query("possible_erasures", possible_erasures(g, -1), NoTarget)

PossibleDeiterations == Query("possible_deiterations", possible_deiterations(g), NoTarget)

\* a rule applied at path w, leaving outcome o
Apply(name, w, o) ==
    /\ steps < MaxSteps
    /\ op' = name
    /\ where' = w
    /\ prev' = g
    /\ g' = o.graph
    /\ status' = IF o.crash THEN "crash" ELSE "ok"
    /\ paths' = <<>>
    /\ target' = NoTarget
    /\ copy' = Aborted
    /\ steps' = steps + 1
    /\ UNCHANGED input

DoubleCut ==
    /\ status = "ok" /\ op = "possible_double_cuts"
    /\ \E k \in 1..Len(paths) :
          Apply("double_cut", paths[k], [crash |-> FALSE, graph |-> double_cut(g, paths[k])])

Erase ==
    /\ status = "ok" /\ op = "possible_erasures"
    /\ \E k \in 1..Len(paths) : \E o \in erase(g, paths[k]) :
          Apply("erase", paths[k], o)

Deiterate ==
    /\ status = "ok" /\ op = "possible_deiterations"
    /\ \E k \in 1..Len(paths) : \E o \in deiterate(g, paths[k]) :
          Apply("deiterate", paths[k], o)

\* AEGraph(g.repr()): the graph is serialized and a second graph is
\* constructed from the text; g itself is not touched
Reparse ==
    /\ status = "ok"
    /\ steps < MaxSteps
    /\ op' = "reparse"
    /\ copy' = AEGraph(repr(g))
    /\ paths' = <<>>
    /\ target' = NoTarget
    /\ UNCHANGED <<input, g, status, where, prev, steps>>

Next ==
    \/ GetPathsTo
    \/ PossibleDoubleCuts
    \/ PossibleErasures
    \/ PossibleDeiterations
    \/ DoubleCut
    \/ Erase
    \/ Deiterate
    \/ Reparse

Spec == Init /\ [][Next]_vars

-----------------------------------------------------------------------------
(* Vocabulary of the properties.                                           *)

Last(p) == p[Len(p)]

Front(p) == SubSeq(p, 1, Len(p) - 1)

\* the node reached from n through the subgraph indices of p
RECURSIVE NodeAt(_, _)
NodeAt(n, p) == IF p = <<>> THEN n ELSE NodeAt(n.subgraphs[p[1] + 1], Tail(p))

\* p descends through existing subgraphs and ends on an existing child
ValidAddress(n, p) ==
    /\ Len(p) >= 1
    /\ \A j \in 1..(Len(p) - 1) :
          p[j] \in 0..(num_subgraphs(NodeAt(n, SubSeq(p, 1, j - 1))) - 1)
    /\ Last(p) \in 0..(size(NodeAt(n, Front(p))) - 1)

\* the cuts entered on the way from the root to the node that encloses the
\* element at p
CutsAround(n, p) ==
    Cardinality({j \in 1..(Len(p) - 1) : ~NodeAt(n, SubSeq(p, 1, j)).is_SA})

\* the element at a valid address: a subgraph if the last index is below the
\* enclosing node's subgraph count, else an atom
Addressed(n, p) ==
    LET e == NodeAt(n, Front(p))
    IN  IF Last(p) < num_subgraphs(e)
        THEN GraphTarget(e.subgraphs[Last(p) + 1])
        ELSE AtomTarget(e.atoms[Last(p) - num_subgraphs(e) + 1])

\* n with the element at the valid address p taken out of its parent's list
RECURSIVE RemoveChild(_, _)
RemoveChild(n, p) ==
    IF Len(p) > 1
    THEN [n EXCEPT !.subgraphs[p[1] + 1] = RemoveChild(@, Tail(p))]
    ELSE IF p[1] < num_subgraphs(n)
         THEN [n EXCEPT !.subgraphs = RemoveAt(@, p[1] + 1)]
         ELSE [n EXCEPT !.atoms = RemoveAt(@, p[1] - num_subgraphs(n) + 1)]

\* the tree is in canonical form: sorting it changes nothing
Canonical(n) == sort(n) = n

\* the multiset of the elements of a sequence
BagOf(q) ==
    [x \in {q[i] : i \in 1..Len(q)} |-> Cardinality({i \in 1..Len(q) : q[i] = x})]

\* every atom below n with the number of cuts around it, n being at depth d
RECURSIVE AtomDepths(_, _)
AtomDepths(n, d) ==
    [i \in 1..Len(n.atoms) |-> <<n.atoms[i], d>>]
    \o Flatten([i \in 1..Len(n.subgraphs) |-> AtomDepths(n.subgraphs[i], d + 1)])

\* every cut below n, as its text, with its depth
RECURSIVE CutDepths(_, _)
CutDepths(n, d) ==
    Flatten([i \in 1..Len(n.subgraphs) |->
        << <<repr(n.subgraphs[i]), d + 1>> >> \o CutDepths(n.subgraphs[i], d + 1)])

NumCuts(n) == Len(CutDepths(n, 0))

\* the atoms outside the cut at path w (the atoms of its ancestors included)
RECURSIVE AtomsOutside(_, _, _)
AtomsOutside(n, d, w) ==
    [i \in 1..Len(n.atoms) |-> <<n.atoms[i], d>>]
    \o Flatten([i \in 1..Len(n.subgraphs) |->
          IF i = w[1] + 1
          THEN IF Len(w) = 1 THEN <<>>
               ELSE AtomsOutside(n.subgraphs[i], d + 1, Tail(w))
          ELSE AtomDepths(n.subgraphs[i], d + 1)])

\* the cuts below n that are not on the path w; with whole, nothing below
\* the last cut of the path either
RECURSIVE CutsOffPath(_, _, _, _)
CutsOffPath(n, d, w, whole) ==
    Flatten([i \in 1..Len(n.subgraphs) |->
        IF w # <<>> /\ i = w[1] + 1
        THEN IF Len(w) = 1 /\ whole THEN <<>>
             ELSE CutsOffPath(n.subgraphs[i], d + 1, Tail(w), whole)
        ELSE << <<repr(n.subgraphs[i]), d + 1>> >> \o CutDepths(n.subgraphs[i], d + 1)])

\* the entries of q two levels up
TwoUp(q) == [i \in 1..Len(q) |-> <<q[i][1], q[i][2] - 2>>]

\* the outer delimiters are a matching pair
OuterPair(t) ==
    /\ Len(t) >= 2
    /\ \/ t[1] = "(" /\ t[Len(t)] = ")"
       \/ t[1] = "[" /\ t[Len(t)] = "]"

\* the square brackets of the body nest: never more closed than opened,
\* and all closed at the end
Balanced(body) ==
    /\ \A i \in 0..Len(body) : numOpenAt(body, i) >= 0
    /\ numOpenAt(body, Len(body)) = 0

Malformed(t) == ~OuterPair(t) \/ ~Balanced(SubSeq(t, 2, Len(t) - 1))

\* following p from n with operator[], every index within the node's size
RECURSIVE InRange(_, _)
InRange(n, p) ==
    p = <<>> \/ (p[1] \in 0..(size(n) - 1) /\ InRange(Index(n, p[1]), Tail(p)))

RECURSIVE Resolve(_, _)
Resolve(n, p) == IF p = <<>> THEN n ELSE Resolve(Index(n, p[1]), Tail(p))

\* the element t is a direct child of n, at an index other than skip
ChildOf(n, t, skip) ==
    IF t.is_atom
    THEN \E i \in 1..Len(n.atoms) : n.atoms[i] = t.atom
    ELSE \E i \in 1..Len(n.subgraphs) :
            i - 1 # skip /\ GraphEq(n.subgraphs[i], t.graph)

\* the depths j of the proper ancestors N of the node enclosing the element
\* at p in n that hold another occurrence of element t as a direct child in m
CopyHolders(n, m, p, t) ==
    {j \in 0..(Len(p) - 2) :
        /\ ChildOf(NodeAt(n, SubSeq(p, 1, j)), t, p[j + 1])
        /\ ChildOf(NodeAt(m, SubSeq(p, 1, j)), t, p[j + 1])}

Parsed == status = "ok" /\ steps = 0

\* the rule named r has just been applied to a parsed graph
Applied(r) == op = r /\ steps = 1

-----------------------------------------------------------------------------
(* The properties.                                                         *)

\* C1: on a parsed graph, every path possible_erasures(-1) returns is the
\* address of an existing atom or subgraph whose enclosing node lies inside
\* an even number of cuts; for "(a, [a])" the outer a (index 1, after the
\* subgraph) is returned and the a inside [a] (path 0,0) is not.
C1_ErasureOnlyInPositiveContext ==
    (Parsed /\ op = "possible_erasures") =>
        /\ \A k \in 1..Len(paths) :
              /\ ValidAddress(g, paths[k])
              /\ CutsAround(g, paths[k]) % 2 = 0
        /\ input = ScenarioB =>
              /\ \E k \in 1..Len(paths) : paths[k] = <<1>>
              /\ \A k \in 1..Len(paths) : paths[k] # <<0, 0>>

\* C1 witness: erasures were asked of a parsed graph that has a candidate
\* two cuts deep and an element one cut deep that is not a candidate.
C1_Witness ==
    /\ Parsed /\ op = "possible_erasures"
    /\ \E k \in 1..Len(paths) : Len(paths[k]) = 3
    /\ \E i \in 0..(num_subgraphs(g) - 1) :
          /\ ValidAddress(g, <<i, 0>>)
          /\ \A k \in 1..Len(paths) : paths[k] # <<i, 0>>

\* C2: erase at a path returned by possible_erasures on a parsed graph
\* returns the graph with exactly the addressed atom or subgraph removed
\* from its parent's list, whatever the parent's subgraph count.
C2_EraseRemovesTheAddressedElement ==
    Applied("erase") => (status = "ok" /\ g = RemoveChild(prev, where))

\* C3: every tree reached by double_cut, erase and deiterate from a parsed
\* tree is canonical: atoms sorted, subgraphs sorted by their text.
C3_ReachableTreesAreCanonical ==
    status = "ok" => Canonical(g)

\* C4: double_cut at a path returned by possible_double_cuts on a parsed
\* graph removes exactly two cuts, keeps the multiset of atoms, moves every
\* atom and cut of the inner cut two levels up and leaves every atom and
\* cut outside the addressed cut with its content and depth.
C4_DoubleCutSoundness ==
    Applied("double_cut") =>
        LET d == Len(where)
            inner == NodeAt(prev, where).subgraphs[1]
        IN  /\ status = "ok"
            /\ NumCuts(g) = NumCuts(prev) - 2
            /\ BagOf([i \in 1..Len(AtomDepths(g, 0)) |-> AtomDepths(g, 0)[i][1]])
               = BagOf([i \in 1..Len(AtomDepths(prev, 0)) |-> AtomDepths(prev, 0)[i][1]])
            /\ BagOf(AtomDepths(g, 0))
               = BagOf(AtomsOutside(prev, 0, where) \o TwoUp(AtomDepths(inner, d + 1)))
            /\ BagOf(CutsOffPath(g, 0, Front(where), FALSE))
               = BagOf(CutsOffPath(prev, 0, where, TRUE) \o TwoUp(CutDepths(inner, d + 1)))

\* C4 witness: a double cut was removed whose inner cut held an atom and a
\* cut, below a parent with other content.
C4_Witness ==
    /\ Applied("double_cut") /\ status = "ok"
    /\ LET inner == NodeAt(prev, where).subgraphs[1]
       IN  num_atoms(inner) >= 1 /\ num_subgraphs(inner) >= 1

\* C5 as stated: for "(a, [a, b])", possible_deiterations returns the
\* location of the inner a and deiterate there returns a graph equal to the
\* graph of "([b])".
C5_ScenarioC_AsStated ==
    /\ (Parsed /\ input = ScenarioC /\ op = "possible_deiterations") =>
          \E k \in 1..Len(paths) : paths[k] = <<0, 0>>
    /\ (Applied("deiterate") /\ input = ScenarioC /\ where = <<0, 0>>) =>
          /\ status = "ok"
          /\ GraphEq(g, AEGraph(<<"(", "[", "b", "]", ")">>).graph)

\* C5 amended: for "(a, [a, b])", possible_deiterations returns exactly the
\* location 0,0 of the inner a, and deiterate there returns a graph equal to
\* the graph of "(a, [b])": the sheet-level a stays.
C5_ScenarioC ==
    /\ (Parsed /\ input = ScenarioC /\ op = "possible_deiterations") =>
          /\ paths = << <<0, 0>> >>
          /\ Addressed(g, <<0, 0>>) = AtomTarget(<<"a">>)
    /\ (Applied("deiterate") /\ input = ScenarioC /\ where = <<0, 0>>) =>
          /\ status = "ok"
          /\ GraphEq(g, AEGraph(<<"(", "a", ",", " ", "[", "b", "]", ")">>).graph)

\* C5 witness: the inner a of "(a, [a, b])" has been deiterated.
C5_Witness ==
    Applied("deiterate") /\ input = ScenarioC /\ where = <<0, 0>> /\ status = "ok"

\* C6: parsing the text repr() returns for a parsed graph yields a graph
\* with the same atoms and subgraphs at every node and the same text.
C6_RoundTrip ==
    (Parsed /\ op = "reparse") =>
        /\ copy.ok
        /\ copy.graph = g
        /\ repr(copy.graph) = repr(g)

\* C7: on a parsed graph, every path get_paths_to returns stays in range
\* under operator[] at every step and resolves to the target (the one-atom
\* view of the atom, or a subgraph equal to the target), and the node that
\* encloses the addressed element does not have size 1.
C7_PathsResolveToTarget ==
    (Parsed /\ op = "get_paths_to") =>
        \A k \in 1..Len(paths) :
            /\ ValidAddress(g, paths[k])
            /\ InRange(g, paths[k])
            /\ IF target.is_atom
               THEN Resolve(g, paths[k]) = Node(TRUE, <<target.atom>>, <<>>)
               ELSE GraphEq(Resolve(g, paths[k]), target.graph)
            /\ Addressed(g, paths[k]).is_atom = target.is_atom
            /\ size(NodeAt(g, Front(paths[k]))) # 1

\* C7 witness: an atom was found below the root in a node that also has a
\* subgraph, so that its index is offset by the subgraph count.
C7_Witness ==
    /\ Parsed /\ op = "get_paths_to" /\ target.is_atom
    /\ \E k \in 1..Len(paths) :
          /\ Len(paths[k]) >= 2
          /\ num_subgraphs(NodeAt(g, Front(paths[k]))) >= 1

\* C8: no text whose outer delimiters are missing or mismatched, or whose
\* body has unbalanced bracket nesting, is accepted as a graph.
C8_MalformedTextIsRejected ==
    (op = "parse" /\ Malformed(input)) => status # "ok"

\* C9 as stated: on a graph parsed from a well-formed text, no path
\* possible_erasures returns addresses the only child of its enclosing
\* node, the outer sheet included.
C9_SoleChildNeverErasable ==
    (Parsed /\ ~Malformed(input) /\ op = "possible_erasures") =>
        \A k \in 1..Len(paths) : size(NodeAt(g, Front(paths[k]))) # 1

\* C9 amended: on a parsed graph, no path possible_erasures returns
\* addresses the only child of an enclosing node below the root; the root
\* is exempt: its only child is returned, as path 0.
C9_SoleChildBelowRootNotErasable ==
    (Parsed /\ op = "possible_erasures") =>
        /\ \A k \in 1..Len(paths) :
              Len(paths[k]) > 1 => size(NodeAt(g, Front(paths[k]))) # 1
        /\ size(g) = 1 => \E k \in 1..Len(paths) : paths[k] = <<0>>

\* C9 witness: erasures were asked of a parsed graph with a node two cuts
\* deep that has exactly one child.
C9_Witness ==
    /\ Parsed /\ op = "possible_erasures"
    /\ \E i \in 0..(num_subgraphs(g) - 1) :
          \E j \in 0..(num_subgraphs(g.subgraphs[i + 1]) - 1) :
              size(g.subgraphs[i + 1].subgraphs[j + 1]) = 1

\* C10: on a parsed graph, possible_deiterations returns no path twice, and
\* each path addresses an element of which another occurrence is a direct
\* child of a proper ancestor N of the enclosing node; deiterate removes
\* only the addressed occurrence, and the other one is still a direct child
\* of N in the result.
C10_DeiterationRemovesOnlyCopies ==
    /\ (Parsed /\ op = "possible_deiterations") =>
          /\ \A k, l \in 1..Len(paths) : paths[k] = paths[l] => k = l
          /\ \A k \in 1..Len(paths) :
                /\ ValidAddress(g, paths[k])
                /\ CopyHolders(g, g, paths[k], Addressed(g, paths[k])) # {}
    /\ Applied("deiterate") =>
          /\ status = "ok"
          /\ g = RemoveChild(prev, where)
          /\ CopyHolders(prev, g, where, Addressed(prev, where)) # {}

\* C10 witness: a subgraph, copy of a sibling of one of its ancestors, has
\* been deiterated.
C10_Witness ==
    /\ Applied("deiterate") /\ status = "ok"
    /\ ~Addressed(prev, where).is_atom

====
